---- MODULE Spec2Model ----
(***************************************************************************)
(* Model of packages/common-widgets/utils/bezier-easing.ts.                *)
(*                                                                         *)
(* bezier(mX1, mY1, mX2, mY2) validates the control points, returns        *)
(* LinearEasing for the diagonal, and otherwise precomputes an 11 entry    *)
(* table of x(i/10) and returns the closure BezierEasing, which finds t    *)
(* with x(t) = aX (getTForX: table scan, interpolated guess, then          *)
(* Newton-Raphson, the unrefined guess, or bisection) and returns y(t).    *)
(*                                                                         *)
(* Numbers.  A JavaScript number v is represented by the integer nearest   *)
(* to v * ONE (fixed point, six decimal places).  Sums and products by a   *)
(* small integer are exact; Mul and Div round to the nearest               *)
(* representable value, as the IEEE operations do at their own (finer)     *)
(* resolution.  Every intermediate value has to stay below 2^31 / ONE, so  *)
(* the inputs below keep out-of-range arguments close to [0,1].            *)
(***************************************************************************)
EXTENDS Integers, Sequences, FiniteSets, TLC

(* ------------------------------ numbers -------------------------------- *)

HALF == 10 ^ 3

ONE == HALF * HALF

Abs(a) == IF a < 0 THEN -a ELSE a

Sign(a) == IF a < 0 THEN -1 ELSE 1

\* a * b, rounded to nearest; the operands are split so that no partial
\* product leaves 32 bits.
Mul(a, b) ==
    LET x == Abs(a)
        y == Abs(b)
        xh == x \div HALF
        xl == x % HALF
        yh == y \div HALF
        yl == y % HALF
        mid == xh * yl + xl * yh + ((xl * yl) \div HALF) + (HALF \div 2)
    IN  Sign(a) * Sign(b) * (xh * yh + (mid \div HALF))

RECURSIVE DivDigits(_, _, _, _)
DivDigits(acc, r, y, n) ==
    IF n = 0
    THEN acc + (IF 2 * r >= y THEN 1 ELSE 0)
    ELSE DivDigits(acc * 10 + ((r * 10) \div y), (r * 10) % y, y, n - 1)

\* a / b, rounded to nearest, by long division (six fractional digits).
\* The code never divides by zero on a valid curve (the table is strictly
\* increasing and newtonRaphsonIterate tests the slope first).
Div(a, b) ==
    LET x == Abs(a)
        y == Abs(b)
    IN  Sign(a) * Sign(b) * DivDigits(x \div y, x % y, y, 6)

\* The number n / d, for integers n and d.
Dec(n, d) == Div(n, d)

(* --------------------------- program constants ------------------------- *)

NEWTON_ITERATIONS == 4

NEWTON_MIN_SLOPE == Dec(1, 1000)

\* 0.0000001 is below the resolution: |v| > 1e-7 is v # 0 here.
SUBDIVISION_PRECISION == Dec(1, 10000000)

SUBDIVISION_MAX_ITERATIONS == 10

kSplineTableSize == 11

kSampleStepSize == Div(ONE, kSplineTableSize * ONE - ONE)

(* ------------------------------ the curve ------------------------------ *)

A(aA1, aA2) == ONE - 3 * aA2 + 3 * aA1

\* B with the coefficient of aA1 mistyped.
BWrongFactor(aA1, aA2) == 3 * aA2 - 3 * aA1

B(aA1, aA2) == 3 * aA2 - 6 * aA1

C(aA1) == 3 * aA1

\* x(t) given t, x1 and x2, or y(t) given t, y1 and y2.
calcBezier(aT, aA1, aA2) ==
    Mul(Mul(Mul(A(aA1, aA2), aT) + B(aA1, aA2), aT) + C(aA1), aT)

\* dx/dt given t, x1 and x2.
getSlope(aT, aA1, aA2) ==
    Mul(Mul(3 * A(aA1, aA2), aT), aT) + Mul(2 * B(aA1, aA2), aT) + C(aA1)

(* ------------------------------- inputs -------------------------------- *)

\* Control points lie on a grid of GridN steps over [0,1], together with
\* 0.42 and, for the x-coordinates, one value on each side of [0,1].
GridN == 4

\* evaluate is called on a grid of EvalN steps over [0,1], on three values
\* next to the flat point of the curve (1,_,0,_), and just outside [0,1].
EvalN == 4

XGrid == {Dec(i, GridN) : i \in 0..GridN}

CtorXs == XGrid \cup {Dec(42, 100), Dec(-1, 10), Dec(3, 2)}

CtorYs == {0, Dec(1, 4), ONE, Dec(3, 2)}

CtorArgs == CtorXs \X CtorYs \X CtorXs \X CtorYs

EvalInputs ==
    {Dec(i, EvalN) : i \in 0..EvalN}
        \cup {Dec(1, 2), Dec(5005, 10000), Dec(501, 1000), Dec(-1, 10), Dec(11, 10)}

\* The curves the interleaved specification constructs.
SharedArgs ==
    { <<ONE, 0, 0, ONE>>, <<Dec(42, 100), 0, ONE, ONE>>,
      <<0, Dec(1, 4), 0, ONE>>, <<0, 0, ONE, ONE>> }

\* Call frames: JavaScript runs one call at a time (frame 1); the
\* interleaved specification runs two.
Callers == {1, 2}

MainCaller == {1}

(* -------------------------------- state -------------------------------- *)

VARIABLES
    fn,            \* what bezier() returned: kind and the captured mX1..mY2
    sampleValues,  \* the captured table, index 0..kSplineTableSize-1
    calls          \* per call frame: the locals of BezierEasing / getTForX

vars == <<fn, sampleValues, calls>>

NoTable == [i \in {} |-> 0]

Idle ==
    [pc |-> "idle", aX |-> 0, intervalStart |-> 0, currentSample |-> 0,
     aGuessT |-> 0, aA |-> 0, aB |-> 0, i |-> 0, t |-> 0, result |-> 0,
     via |-> "none", nScan |-> 0, nIter |-> 0]

Init ==
    /\ fn = [kind |-> "none", mX1 |-> 0, mY1 |-> 0, mX2 |-> 0, mY2 |-> 0]
    /\ sampleValues = NoTable
    /\ calls = [c \in Callers |-> Idle]

(* ----------------------------- construction ---------------------------- *)

\* The range check with mX2 forgotten.
ValidArgsFirstOnly(mX1, mX2) == mX1 >= 0 /\ mX1 <= ONE

\* The guard of the throw at the head of bezier().
ValidArgs(mX1, mX2) == mX1 >= 0 /\ mX1 <= ONE /\ mX2 >= 0 /\ mX2 <= ONE

\* The diagonal test with the coordinates paired the wrong way.
IsLinearCrossed(mX1, mY1, mX2, mY2) == mX1 = mX2 /\ mY1 = mY2

IsLinear(mX1, mY1, mX2, mY2) == mX1 = mY1 /\ mX2 = mY2

\* The table sampled one step late.
SampleTableShifted(mX1, mX2) ==
    [i \in 0..(kSplineTableSize - 1) |->
        calcBezier((i + 1) * kSampleStepSize, mX1, mX2)]

\* The table is a Float32Array where there is one; rounding to single
\* precision moves a value in [0,1] by less than 1 / ONE.
SampleTable(mX1, mX2) ==
    [i \in 0..(kSplineTableSize - 1) |-> calcBezier(i * kSampleStepSize, mX1, mX2)]

Construct(mX1, mY1, mX2, mY2) ==
    /\ fn.kind = "none"
    /\ fn' = [kind |-> IF ~ValidArgs(mX1, mX2) THEN "error"
                        ELSE IF IsLinear(mX1, mY1, mX2, mY2) THEN "linear"
                        ELSE "bezier",
              mX1 |-> mX1, mY1 |-> mY1, mX2 |-> mX2, mY2 |-> mY2]
    /\ sampleValues' = IF ValidArgs(mX1, mX2) /\ ~IsLinear(mX1, mY1, mX2, mY2)
                       THEN SampleTable(mX1, mX2)
                       ELSE NoTable
    /\ UNCHANGED calls

(* ------------------------------ evaluation ----------------------------- *)

\* The return of BezierEasing: y(t) for the t that getTForX returned.
Finish(r, t, via) ==
    [r EXCEPT !.pc = "done", !.t = t, !.via = via,
              !.result = calcBezier(t, fn.mY1, fn.mY2)]

\* BezierEasing with only the lower extreme guarded.
BeginFrameZeroOnly(x) ==
    IF fn.kind = "linear"
    THEN [Idle EXCEPT !.pc = "done", !.aX = x, !.result = x, !.via = "linear"]
    ELSE IF x = 0
    THEN [Idle EXCEPT !.pc = "done", !.aX = x, !.result = x, !.via = "extreme"]
    ELSE [Idle EXCEPT !.pc = "scan", !.aX = x, !.intervalStart = 0,
                      !.currentSample = 1]

\* LinearEasing(x), and the head of BezierEasing(x): the extremes are
\* returned as they are, any other x enters getTForX.
BeginFrame(x) ==
    IF fn.kind = "linear"
    THEN [Idle EXCEPT !.pc = "done", !.aX = x, !.result = x, !.via = "linear"]
    ELSE IF x = 0 \/ x = ONE
    THEN [Idle EXCEPT !.pc = "done", !.aX = x, !.result = x, !.via = "extreme"]
    ELSE [Idle EXCEPT !.pc = "scan", !.aX = x, !.intervalStart = 0,
                      !.currentSample = 1]

\* The loop condition with < for <=.
ScanContinuesStrict(r) ==
    /\ r.currentSample # kSplineTableSize - 1
    /\ sampleValues[r.currentSample] < r.aX

\* The condition of the for loop of getTForX.
ScanContinues(r) ==
    /\ r.currentSample # kSplineTableSize - 1
    /\ sampleValues[r.currentSample] <= r.aX

\* One pass of the for loop of getTForX.
ScanFrame(r) ==
    [r EXCEPT !.intervalStart = @ + kSampleStepSize,
              !.currentSample = @ + 1,
              !.nScan = @ + 1]

\* After the loop: step back, interpolate the guess, choose the refinement.
GuessFrame(r) ==
    LET lo == r.currentSample - 1
        dist == Div(r.aX - sampleValues[lo], sampleValues[lo + 1] - sampleValues[lo])
        guessForT == r.intervalStart + Mul(dist, kSampleStepSize)
        initialSlope == getSlope(guessForT, fn.mX1, fn.mX2)
        q == [r EXCEPT !.currentSample = lo]
    IN  IF initialSlope >= NEWTON_MIN_SLOPE
        THEN [q EXCEPT !.pc = "newton", !.aGuessT = guessForT, !.i = 0]
        ELSE IF initialSlope = 0
        THEN Finish(q, guessForT, "guess")
        ELSE [q EXCEPT !.pc = "bisect", !.aA = r.intervalStart,
                       !.aB = r.intervalStart + kSampleStepSize, !.i = 0]

\* One pass of the for loop of newtonRaphsonIterate, with the loop test
\* that follows it.
NewtonFrame(r) ==
    LET currentSlope == getSlope(r.aGuessT, fn.mX1, fn.mX2)
        currentX == calcBezier(r.aGuessT, fn.mX1, fn.mX2) - r.aX
        next == r.aGuessT - Div(currentX, currentSlope)
    IN  IF currentSlope = 0
        THEN Finish(r, r.aGuessT, "newton-flat")
        ELSE IF r.i + 1 < NEWTON_ITERATIONS
        THEN [r EXCEPT !.aGuessT = next, !.i = @ + 1, !.nIter = @ + 1]
        ELSE Finish([r EXCEPT !.aGuessT = next, !.i = @ + 1, !.nIter = @ + 1],
                    next, "newton")

\* binarySubdivide with <= for < in the iteration limit.
BisectFrameOneMore(r) ==
    LET currentT == r.aA + Div(r.aB - r.aA, 2 * ONE)
        currentX == calcBezier(currentT, fn.mX1, fn.mX2) - r.aX
        q == IF currentX > 0
             THEN [r EXCEPT !.aB = currentT, !.nIter = @ + 1]
             ELSE [r EXCEPT !.aA = currentT, !.nIter = @ + 1]
    IN  IF Abs(currentX) > SUBDIVISION_PRECISION
        THEN IF r.i + 1 <= SUBDIVISION_MAX_ITERATIONS
             THEN [q EXCEPT !.i = @ + 1]
             ELSE Finish([q EXCEPT !.i = @ + 1], currentT, "bisect")
        ELSE Finish(q, currentT, "bisect")

\* One pass of the do-while loop of binarySubdivide, with its loop test.
BisectFrame(r) ==
    LET currentT == r.aA + Div(r.aB - r.aA, 2 * ONE)
        currentX == calcBezier(currentT, fn.mX1, fn.mX2) - r.aX
        q == IF currentX > 0
             THEN [r EXCEPT !.aB = currentT, !.nIter = @ + 1]
             ELSE [r EXCEPT !.aA = currentT, !.nIter = @ + 1]
    IN  IF Abs(currentX) > SUBDIVISION_PRECISION
        THEN IF r.i + 1 < SUBDIVISION_MAX_ITERATIONS
             THEN [q EXCEPT !.i = @ + 1]
             ELSE Finish([q EXCEPT !.i = @ + 1], currentT, "bisect")
        ELSE Finish(q, currentT, "bisect")

Running(c) == calls[c].pc \notin {"idle", "done"}

\* A call of the function bezier() returned.
Begin(c, x) ==
    /\ fn.kind \in {"linear", "bezier"}
    /\ ~Running(c)
    /\ calls' = [calls EXCEPT ![c] = BeginFrame(x)]
    /\ UNCHANGED <<fn, sampleValues>>

\* A scan that plants the target in slot 0 of the captured table.
ScanStepWritesTable(c) ==
    /\ calls[c].pc = "scan"
    /\ ScanContinues(calls[c])
    /\ calls' = [calls EXCEPT ![c] = ScanFrame(calls[c])]
    /\ sampleValues' = [sampleValues EXCEPT ![0] = calls[c].aX]
    /\ UNCHANGED fn

ScanStep(c) ==
    /\ calls[c].pc = "scan"
    /\ ScanContinues(calls[c])
    /\ calls' = [calls EXCEPT ![c] = ScanFrame(calls[c])]
    /\ UNCHANGED <<fn, sampleValues>>

GuessStep(c) ==
    /\ calls[c].pc = "scan"
    /\ ~ScanContinues(calls[c])
    /\ calls' = [calls EXCEPT ![c] = GuessFrame(calls[c])]
    /\ UNCHANGED <<fn, sampleValues>>

NewtonStep(c) ==
    /\ calls[c].pc = "newton"
    /\ calls' = [calls EXCEPT ![c] = NewtonFrame(calls[c])]
    /\ UNCHANGED <<fn, sampleValues>>

BisectStep(c) ==
    /\ calls[c].pc = "bisect"
    /\ calls' = [calls EXCEPT ![c] = BisectFrame(calls[c])]
    /\ UNCHANGED <<fn, sampleValues>>

Step(c) == ScanStep(c) \/ GuessStep(c) \/ NewtonStep(c) \/ BisectStep(c)

(* ---------------------------- specifications --------------------------- *)

\* Calls run one at a time, to completion, as JavaScript runs them.
Next ==
    \/ \E a \in CtorArgs : Construct(a[1], a[2], a[3], a[4])
    \/ \E c \in MainCaller, x \in EvalInputs : Begin(c, x)
    \/ \E c \in MainCaller : ScanStep(c)
    \/ \E c \in MainCaller : GuessStep(c)
    \/ \E c \in MainCaller : NewtonStep(c)
    \/ \E c \in MainCaller : BisectStep(c)

Spec == Init /\ [][Next]_vars

\* Two calls of one constructed function, interleaved step by step.
NextShared ==
    \/ \E a \in SharedArgs : Construct(a[1], a[2], a[3], a[4])
    \/ \E c \in Callers, x \in EvalInputs : Begin(c, x)
    \/ \E c \in Callers : ScanStep(c)
    \/ \E c \in Callers : GuessStep(c)
    \/ \E c \in Callers : NewtonStep(c)
    \/ \E c \in Callers : BisectStep(c)

SpecShared == Init /\ [][NextShared]_vars

(* ------------------------- a call run on its own ----------------------- *)

NextFrame(r) ==
    IF r.pc = "scan"
    THEN IF ScanContinues(r) THEN ScanFrame(r) ELSE GuessFrame(r)
    ELSE IF r.pc = "newton" THEN NewtonFrame(r)
    ELSE BisectFrame(r)

RECURSIVE RunFrame(_)
RunFrame(r) == IF r.pc = "done" THEN r ELSE RunFrame(NextFrame(r))

\* The value of the constructed function at x, computed in one piece.
Evaluate(x) == RunFrame(BeginFrame(x)).result

(* -------------------------------- claims ------------------------------- *)

Constructed == fn.kind \in {"linear", "bezier"}

InUnit(v) == 0 <= v /\ v <= ONE

Returned(c) == calls[c].pc = "done"

\* The call went through getTForX.
Solved(c) == Returned(c) /\ calls[c].via \in {"newton", "newton-flat", "guess", "bisect"}

\* The scan of getTForX is over in this frame.
Bracketed(c) == calls[c].pc \in {"newton", "bisect"} \/ Solved(c)

\* C1: construction fails exactly when x1 or x2 lies outside [0,1], whatever
\* y1 and y2 are; a failed construction leaves no table and no function, so
\* no call is ever made.
C1_ConstructionRejectsExactlyBadX ==
    fn.kind # "none" =>
        /\ fn.kind = "error" <=> ~(InUnit(fn.mX1) /\ InUnit(fn.mX2))
        /\ fn.kind = "error" =>
               sampleValues = NoTable /\ \A c \in Callers : calls[c].pc = "idle"

C1_Witness ==
    /\ fn.kind = "error"
    /\ InUnit(fn.mX1)
    /\ fn.mX2 > ONE
    /\ fn.mY1 > ONE

\* C2: on a constructed function, the inputs 0 and 1 are returned as they
\* are, with no pass of the table scan and no refinement step.
C2_ExtremesExact ==
    \A c \in Callers :
        (calls[c].pc # "idle" /\ calls[c].aX \in {0, ONE}) =>
            /\ Returned(c)
            /\ calls[c].result = calls[c].aX
            /\ calls[c].nScan = 0
            /\ calls[c].nIter = 0

C2_Witness ==
    /\ fn.kind = "bezier"
    /\ fn.mY2 > ONE
    /\ Returned(1)
    /\ calls[1].aX = ONE
    /\ calls[1].result = ONE

\* C3: the t that getTForX returns for a target strictly between 0 and 1
\* satisfies |x(t) - target| < 0.0001, whichever refinement produced it.
C3_RootAccurate ==
    \A c \in Callers :
        (Solved(c) /\ 0 < calls[c].aX /\ calls[c].aX < ONE) =>
            Abs(calcBezier(calls[c].t, fn.mX1, fn.mX2) - calls[c].aX) < Dec(1, 10000)

IsEaseIn ==
    /\ fn.kind = "bezier"
    /\ fn.mX1 = Dec(42, 100)
    /\ fn.mY1 = 0
    /\ fn.mX2 = ONE
    /\ fn.mY2 = ONE

\* C4 as stated: bezier(0.42, 0, 1, 1) at 0.5 is within 0.001 of 0.3625.
C4_EaseInAtHalfAsStated ==
    \A c \in Callers :
        (IsEaseIn /\ Returned(c) /\ calls[c].aX = Dec(1, 2)) =>
            Abs(calls[c].result - Dec(3625, 10000)) <= Dec(1, 1000)

\* C4, amended: bezier(0.42, 0, 1, 1) at 0.5 is within 0.001 of 0.3154.
C4_EaseInAtHalf ==
    \A c \in Callers :
        (IsEaseIn /\ Returned(c) /\ calls[c].aX = Dec(1, 2)) =>
            Abs(calls[c].result - Dec(3154, 10000)) <= Dec(1, 1000)

C4_Witness ==
    /\ IsEaseIn
    /\ Solved(1)
    /\ calls[1].aX = Dec(1, 2)

\* C5: with x1 = y1 and x2 = y2 the function returned is the identity, for
\* inputs outside [0,1] as well; no table is built, no scan and no
\* refinement step is run.
C5_IdentityShortcut ==
    (Constructed /\ fn.mX1 = fn.mY1 /\ fn.mX2 = fn.mY2) =>
        /\ sampleValues = NoTable
        /\ \A c \in Callers :
               calls[c].pc # "idle" =>
                   /\ Returned(c)
                   /\ calls[c].result = calls[c].aX
                   /\ calls[c].nScan = 0
                   /\ calls[c].nIter = 0

C5_Witness ==
    /\ Constructed
    /\ fn.mX1 = Dec(1, 4)
    /\ fn.mY1 = Dec(1, 4)
    /\ fn.mX2 = ONE
    /\ fn.mY2 = ONE
    /\ Returned(1)
    /\ calls[1].aX > ONE
    /\ calls[1].result = calls[1].aX

\* y(t) is non-decreasing on [0,1]: its derivative
\* 3 (y1 (1-t)^2 + 2 (y2-y1) (1-t) t + (1-y2) t^2) has no negative value there.
YNonDecreasing ==
    /\ fn.mY1 >= 0
    /\ fn.mY2 <= ONE
    /\ \/ fn.mY2 >= fn.mY1
       \/ Mul(fn.mY1 - fn.mY2, fn.mY1 - fn.mY2) <= Mul(fn.mY1, ONE - fn.mY2)

\* C6: when y(t) is non-decreasing, the function is non-decreasing on [0,1].
C6_Monotone ==
    (Constructed /\ YNonDecreasing) =>
        \A c, d \in Callers :
            (/\ Returned(c)
             /\ Returned(d)
             /\ 0 <= calls[c].aX
             /\ calls[c].aX <= calls[d].aX
             /\ calls[d].aX <= ONE) => calls[c].result <= calls[d].result

\* No step of a call writes the control points or the table.
Frozen == Constructed => (fn' = fn /\ sampleValues' = sampleValues)

\* A call returns what it returns when run on its own, and equal inputs
\* give equal outputs.
ReturnsAsAlone ==
    \A c \in Callers :
        Returned(c) =>
            /\ calls[c].result = Evaluate(calls[c].aX)
            /\ \A d \in Callers :
                   (Returned(d) /\ calls[d].aX = calls[c].aX) =>
                       calls[d].result = calls[c].result

\* C7: calls of one constructed function never write its table or its
\* control points, and however their steps interleave each call returns the
\* value it returns when run alone.
C7_PureUnderInterleaving == [][Frozen]_vars /\ []ReturnsAsAlone

C7_Witness ==
    /\ Returned(1)
    /\ calls[1].via = "bisect"
    /\ calls[2].pc = "bisect"
    /\ calls[2].nIter = 2
    /\ calls[2].aX = calls[1].aX

WorkBounded ==
    \A c \in Callers :
        /\ calls[c].nScan <= 10
        /\ calls[c].pc = "newton" => calls[c].nIter < NEWTON_ITERATIONS
        /\ calls[c].pc = "bisect" => calls[c].nIter < SUBDIVISION_MAX_ITERATIONS
        /\ (Returned(c) /\ calls[c].via = "newton") =>
               calls[c].nIter = NEWTON_ITERATIONS
        /\ (Returned(c) /\ calls[c].via = "newton-flat") =>
               /\ calls[c].nIter < NEWTON_ITERATIONS
               /\ getSlope(calls[c].t, fn.mX1, fn.mX2) = 0
        /\ (Returned(c) /\ calls[c].via = "bisect") =>
               calls[c].nIter <= SUBDIVISION_MAX_ITERATIONS

\* The passes a frame can still make before it returns.
Budget(r) ==
    IF r.pc = "scan"
    THEN (kSplineTableSize - 1 - r.currentSample) + 1 + SUBDIVISION_MAX_ITERATIONS
    ELSE IF r.pc = "newton" THEN NEWTON_ITERATIONS - r.i
    ELSE IF r.pc = "bisect" THEN SUBDIVISION_MAX_ITERATIONS - r.i
    ELSE 0

\* Every step of a running call uses up some of its budget.
Progress ==
    \A c \in Callers :
        (Running(c) /\ calls'[c] # calls[c]) =>
            /\ Budget(calls'[c]) < Budget(calls[c])
            /\ Budget(calls'[c]) >= 0

\* C8: every call returns, for inputs inside and outside [0,1], after at
\* most 10 passes of the scan and then at most 4 Newton-Raphson passes
\* (4 unless a slope of zero ends them) or at most 10 bisections: the
\* counts stay within these bounds and each step of a call brings its
\* return nearer.
C8_TerminatesWithinBounds == []WorkBounded /\ [][Progress]_vars

C8_Witness ==
    /\ Returned(1)
    /\ calls[1].via = "bisect"
    /\ calls[1].nIter = SUBDIVISION_MAX_ITERATIONS
    /\ calls[1].nScan > 0

\* C9: once the scan has stepped back, the lower index is in 0..9, the
\* interval starts at index * step, and a target strictly between 0 and 1
\* lies in [sample[index], sample[index + 1]).
C9_Bracket ==
    \A c \in Callers :
        Bracketed(c) =>
            LET lo == calls[c].currentSample
            IN  /\ lo \in 0..(kSplineTableSize - 2)
                /\ calls[c].intervalStart = lo * kSampleStepSize
                /\ (0 < calls[c].aX /\ calls[c].aX < ONE) =>
                       /\ sampleValues[lo] <= calls[c].aX
                       /\ calls[c].aX < sampleValues[lo + 1]

C9_Witness ==
    /\ Bracketed(1)
    /\ calls[1].currentSample = 5
    /\ calls[1].aX = sampleValues[5]

\* 1000 x(i/10) from the Bernstein form of the curve,
\* x(t) = 3 (1-t)^2 t x1 + 3 (1-t) t^2 x2 + t^3, in exact arithmetic.
CurveX1000(i, x1, x2) ==
    3 * (10 - i) * (10 - i) * i * x1 + 3 * (10 - i) * i * i * x2 + i * i * i * ONE

\* C10: the table of a curve that is not the identity has 11 entries,
\* sample[i] = x(i/10) (to the last two digits of the representation), and
\* is non-decreasing.
C10_SampleTable ==
    fn.kind = "bezier" =>
        /\ DOMAIN sampleValues = 0..10
        /\ \A i \in 0..10 :
               Abs(1000 * sampleValues[i] - CurveX1000(i, fn.mX1, fn.mX2)) <= 2000
        /\ \A i \in 0..9 : sampleValues[i] <= sampleValues[i + 1]

C10_Witness ==
    /\ fn.kind = "bezier"
    /\ fn.mX1 = ONE
    /\ fn.mX2 = 0
    /\ sampleValues[5] = Dec(1, 2)

====
